---- MODULE Spec2Model ----
(***************************************************************************)
(* Erlang B engine of erlang_channels_web.py: ErlangCalculator.erlang_b,   *)
(* erlang_b_inverse and erlang_a_from_pr, as one call at a time.           *)
(*                                                                         *)
(* Numbers.  A Python float is modelled by an exact rational <<n, d>> in   *)
(* lowest terms (d > 0), float('inf') by <<1, 0>>.  What the model keeps   *)
(* of IEEE-754 is the finite range: FloatMax stands for                    *)
(* sys.float_info.max, and the two operations of erlang_b that raise       *)
(* OverflowError (float ** int, and float / int when the int does not fit  *)
(* a float) raise exactly when the exact value exceeds FloatMax.  Rounding *)
(* to 53 bits and underflow are not modelled: every statement below is     *)
(* about exact arithmetic with an overflow threshold.                      *)
(***************************************************************************)
EXTENDS Integers, Sequences, FiniteSets, TLC

(* ------------------------------ bounds --------------------------------- *)
\* largest number of channels N a call is made with
MaxN == 5
\* offered traffic A is drawn from the halves 1/2, 1, 3/2, ..., MaxTraffic
MaxTraffic == 5
\* stand-in for sys.float_info.max (1.8e308): the overflow threshold
FloatMax == 100
\* largest max_iter a call of erlang_a_from_pr is made with
MaxIter == 4
\* largest max_A a call of erlang_a_from_pr is made with
MaxMaxA == 6
\* largest explicit max_channels a call of erlang_b_inverse is made with
MaxChannels == 3

(* --------------------------- program constants ------------------------- *)
\* def erlang_b_inverse(A, Pr, max_channels=1000)
DefaultMaxChannels == 1000

(* ------------------------- rational arithmetic ------------------------- *)
RECURSIVE GCD(_, _)
GCD(a, b) == IF b = 0 THEN a ELSE GCD(b, a % b)

Abs(i) == IF i < 0 THEN -i ELSE i

Norm(n, d) ==
    LET g == GCD(Abs(n), d) IN <<n \div g, d \div g>>

Zero == <<0, 1>>
One == <<1, 1>>
Two == <<2, 1>>
Inf == <<1, 0>>
IntR(i) == <<i, 1>>
IsInf(x) == x[2] = 0

RAdd(x, y) ==
    LET g == GCD(x[2], y[2])
    IN Norm(x[1] * (y[2] \div g) + y[1] * (x[2] \div g), (x[2] \div g) * y[2])

RMul(x, y) ==
    LET g1 == GCD(Abs(x[1]), y[2])
        g2 == GCD(Abs(y[1]), x[2])
    IN <<(x[1] \div g1) * (y[1] \div g2), (x[2] \div g2) * (y[2] \div g1)>>

\* x / y for y > 0
RDiv(x, y) == RMul(x, <<y[2], y[1]>>)

\* a/b <= c/d for b, d > 0, by comparing the continued fractions: no product
\* is formed, so the comparison is exact for every pair the model can hold
RECURSIVE LeFrac(_, _, _, _)
LeFrac(a, b, c, d) ==
    LET q1 == a \div b
        q2 == c \div d
        r1 == a % b
        r2 == c % d
    IN IF q1 # q2 THEN q1 < q2
       ELSE IF r1 = 0 THEN TRUE
       ELSE IF r2 = 0 THEN FALSE
       ELSE LeFrac(d, r2, b, r1)

RLe(x, y) ==
    IF IsInf(y) THEN TRUE
    ELSE IF IsInf(x) THEN FALSE
    ELSE LeFrac(x[1], x[2], y[1], y[2])

RLt(x, y) == ~RLe(y, x)

(* ----------------------------- erlang_b -------------------------------- *)
\* math.factorial(n), multiplied up from 1; once the product is beyond
\* FloatMax it is no longer multiplied out: its only use is the conversion
\* to float in float / int, which then fails
RECURSIVE FactFrom(_, _, _)
FactFrom(k, f, n) ==
    IF k > n \/ f > FloatMax THEN f ELSE FactFrom(k + 1, k * f, n)

factorial(n) == FactFrom(1, 1, n)

\* a float beyond the finite range in magnitude
OutOfRange(x) == RLt(IntR(FloatMax), x) \/ RLt(x, IntR(-FloatMax))

\* A ** k, multiplied up from 1.0; once the magnitude is beyond FloatMax it
\* is no longer multiplied out: float_pow raises OverflowError
RECURSIVE PowFrom(_, _, _)
PowFrom(A0, p, k) ==
    IF k = 0 \/ OutOfRange(p) THEN p ELSE PowFrom(A0, RMul(p, A0), k - 1)

pow(A0, k) == PowFrom(A0, One, k)

\* the exception (A ** k) / math.factorial(k) raises, "none" if it returns:
\* the power is out of range, or the int does not fit a float.  Both are
\* OverflowError, so the factorial is tested first and the power is only
\* multiplied out for the k whose factorial fits
TermRaises(A0, k) ==
    IF factorial(k) > FloatMax THEN "OverflowError"
    ELSE IF OutOfRange(pow(A0, k)) THEN "OverflowError"
    ELSE "none"

Term(A0, k) == RDiv(pow(A0, k), IntR(factorial(k)))

\* the stop of range(N + 1) in the denominator's sum
DenominatorStop_short(N0) == N0
DenominatorStop(N0) == N0 + 1

\* sum((A ** k) / math.factorial(k) for k in range(stop)), added up from 0
RECURSIVE SumFrom(_, _, _, _)
SumFrom(A0, acc, k, stop) ==
    IF k >= stop THEN acc ELSE SumFrom(A0, RAdd(acc, Term(A0, k)), k + 1, stop)

SumTerms(A0, stop) == SumFrom(A0, Zero, 0, stop)

\* except (OverflowError, ValueError)
Caught_valueOnly(exc) == exc = "ValueError"
Caught(exc) == exc \in {"OverflowError", "ValueError"}

\* the value erlang_b returns from its except clause
OverflowSentinel_zero == Zero
OverflowSentinel == One

\* the exception the powers and conversions of the try block raise, "none"
\* if all of them return: the numerator's first, then the sum's
TryRaises(N0, A0) ==
    IF TermRaises(A0, N0) # "none" THEN TermRaises(A0, N0)
    ELSE IF \E k \in 0..(DenominatorStop(N0) - 1) : TermRaises(A0, k) # "none"
         THEN "OverflowError"
    ELSE "none"

\* what the try statement of erlang_b does with the exception e
Handle(e) ==
    IF Caught(e) THEN [exc |-> "none", val |-> OverflowSentinel]
    ELSE [exc |-> e, val |-> Zero]

\* erlang_b(N, A): [exc |-> the exception that propagates or "none",
\*                  val |-> the value returned]
erlang_b(N0, A0) ==
    IF N0 = 0 THEN [exc |-> "none", val |-> IF RLt(Zero, A0) THEN One ELSE Zero]
    ELSE LET e == TryRaises(N0, A0)
         IN IF e # "none" THEN Handle(e)
            ELSE LET numerator == Term(A0, N0)
                     denominator == SumTerms(A0, DenominatorStop(N0))
                 IN IF denominator = Zero THEN Handle("ZeroDivisionError")
                    ELSE [exc |-> "none", val |-> RDiv(numerator, denominator)]

(* ------------------------------- state --------------------------------- *)
VARIABLES
    pc,            \* "idle", "scan", "bracket", "bisect" or "done"
    op,            \* the function called
    N, A, Pr,      \* its arguments
    tol, max_iter, max_A, max_channels,
    n,             \* loop variable N of erlang_b_inverse
    low, high,     \* the bracket of erlang_a_from_pr
    iter,          \* iterations of the bisection loop completed
    doublings,     \* executions of high *= 2.0
    evals,         \* calls of erlang_b made by the running call
    result,        \* the value returned
    outcome,       \* "return", or the exception that leaves the call
    exit,          \* the return statement taken
    srcN, srcA     \* the (N, A) whose erlang_b value was passed as Pr, if any

args == <<op, N, A, Pr, tol, max_iter, max_A, max_channels, srcN, srcA>>
vars == <<pc, op, N, A, Pr, tol, max_iter, max_A, max_channels, n, low, high,
          iter, doublings, evals, result, outcome, exit, srcN, srcA>>

(* ------------------------------- inputs -------------------------------- *)
Half(k) == Norm(k, 2)

\* offered traffic A > 0
TrafficVals == { Half(k) : k \in 1..(2 * MaxTraffic) }

\* A as a caller may pass it, valid or not
AnyTraffic == TrafficVals \cup {Zero, IntR(-1)}

\* target probabilities, in and out of (0, 1); a call is also made with the
\* erlang_b value of each (N, A), see CallInverse and CallAFromPr
PrVals == { <<-1, 2>>, Zero, <<1, 100>>, <<1, 10>>, <<1, 2>>, <<9, 10>>,
            One, Two }

\* tol: exact hits only, and a tolerance that, like the default 1e-9, is
\* above the smallest probabilities the calls are made with
TolVals == { Zero, <<1, 10>> }

Init ==
    /\ pc = "idle"
    /\ op = "none"
    /\ N = 0 /\ A = Zero /\ Pr = Zero
    /\ tol = Zero /\ max_iter = 0 /\ max_A = Zero /\ max_channels = 0
    /\ n = 0 /\ low = Zero /\ high = Zero
    /\ iter = 0 /\ doublings = 0 /\ evals = 0
    /\ result = Zero /\ outcome = "none" /\ exit = "none"
    /\ srcN = 0 /\ srcA = Zero

\* leave the call with `return v` at the statement named e
Return(v, e) ==
    /\ pc' = "done"
    /\ result' = v
    /\ outcome' = "return"
    /\ exit' = e

\* leave the call with the exception x
Raise(x) ==
    /\ pc' = "done"
    /\ result' = Zero
    /\ outcome' = x
    /\ exit' = "raise"

(* --------------------------- erlang_b, called -------------------------- *)
Call_erlang_b(N0, A0) ==
    /\ op' = "erlang_b" /\ N' = N0 /\ A' = A0
    /\ evals' = 1
    /\ LET b == erlang_b(N0, A0)
       IN IF b.exc = "none" THEN Return(b.val, "erlang_b") ELSE Raise(b.exc)
    /\ UNCHANGED <<Pr, tol, max_iter, max_A, max_channels, n, low, high, iter,
                   doublings, srcN, srcA>>

(* --------------------------- erlang_b_inverse -------------------------- *)
\* the two guards of erlang_b_inverse: the value returned early, -1 if the
\* scan is entered
InverseEarly_swapped(A0, Pr0) ==
    IF RLe(One, Pr0) THEN 1 ELSE IF RLe(A0, Zero) THEN 0 ELSE -1
InverseEarly(A0, Pr0) ==
    IF RLe(A0, Zero) THEN 0 ELSE IF RLe(One, Pr0) THEN 1 ELSE -1

\* erlang_b(N, A) <= Pr
ScanHit_strict(val, Pr0) == RLt(val, Pr0)
ScanHit(val, Pr0) == RLe(val, Pr0)

\* first value of range(1, max_channels + 1)
RangeStart_two == 1 + 1
RangeStart == 1

Call_erlang_b_inverse(A0, Pr0, mc, sN) ==
    /\ op' = "erlang_b_inverse" /\ A' = A0 /\ Pr' = Pr0 /\ max_channels' = mc
    /\ srcN' = sN
    /\ evals' = 0
    /\ IF InverseEarly(A0, Pr0) >= 0
       THEN /\ Return(IntR(InverseEarly(A0, Pr0)), "guard")
            /\ n' = n
       ELSE /\ pc' = "scan"
            /\ n' = RangeStart
            /\ UNCHANGED <<result, outcome, exit>>
    /\ UNCHANGED <<N, tol, max_iter, max_A, low, high, iter, doublings, srcA>>

\* one iteration of the for loop
ScanStep ==
    /\ pc = "scan"
    /\ n <= max_channels
    /\ evals' = evals + 1
    /\ LET b == erlang_b(n, A)
       IN IF b.exc # "none" THEN Raise(b.exc) /\ n' = n
          ELSE IF ScanHit(b.val, Pr) THEN Return(IntR(n), "hit") /\ n' = n
          ELSE /\ n' = n + 1
               /\ UNCHANGED <<pc, result, outcome, exit>>
    /\ UNCHANGED <<args, low, high, iter, doublings>>

\* the range is used up: return max_channels
ScanExhausted ==
    /\ pc = "scan"
    /\ n > max_channels
    /\ Return(IntR(max_channels), "fallback")
    /\ UNCHANGED <<args, n, low, high, iter, doublings, evals>>

(* --------------------------- erlang_a_from_pr -------------------------- *)
\* erlang_b(N, high) < Pr and high < max_A
BracketContinue_noCap(val, Pr0, h, mA) == RLt(val, Pr0)
BracketContinue(val, Pr0, h, mA) == RLt(val, Pr0) /\ RLt(h, mA)

\* abs(val - Pr) <= tol, as the two one-sided tests val - Pr <= tol and
\* Pr - val <= tol
WithinTol_oneSided(val, Pr0, t) == RLe(val, RAdd(Pr0, t))
WithinTol(val, Pr0, t) == RLe(val, RAdd(Pr0, t)) /\ RLe(Pr0, RAdd(val, t))

\* (low + high) / 2.0
Midpoint(lo, hi) == RDiv(RAdd(lo, hi), Two)

Call_erlang_a_from_pr(N0, Pr0, t, mi, mA, sA) ==
    /\ op' = "erlang_a_from_pr" /\ N' = N0 /\ Pr' = Pr0
    /\ tol' = t /\ max_iter' = mi /\ max_A' = mA /\ srcA' = sA
    /\ evals' = 0
    /\ IF N0 <= 0 THEN Raise("ValueError") /\ UNCHANGED <<low, high>>
       ELSE IF RLe(Pr0, Zero) THEN Return(Zero, "guard") /\ UNCHANGED <<low, high>>
       ELSE IF RLe(One, Pr0) THEN Return(Inf, "guard") /\ UNCHANGED <<low, high>>
       ELSE /\ pc' = "bracket"
            /\ low' = Zero
            /\ high' = One
            /\ UNCHANGED <<result, outcome, exit>>
    /\ UNCHANGED <<A, max_channels, n, iter, doublings, srcN>>

\* the while condition holds: high *= 2.0
BracketDouble ==
    /\ pc = "bracket"
    /\ LET b == erlang_b(N, high)
       IN b.exc = "none" /\ BracketContinue(b.val, Pr, high, max_A)
    /\ high' = RMul(high, Two)
    /\ doublings' = doublings + 1
    /\ evals' = evals + 1
    /\ UNCHANGED <<args, pc, n, low, iter, result, outcome, exit>>

\* the while loop ends: by an exception (except Exception: return max_A), or
\* by its condition, and then the test of line 70 decides between max_A and
\* the bisection
BracketExit ==
    /\ pc = "bracket"
    /\ LET b == erlang_b(N, high)
       IN /\ ~(b.exc = "none" /\ BracketContinue(b.val, Pr, high, max_A))
          /\ IF b.exc # "none"
             THEN Return(max_A, "saturated") /\ evals' = evals + 1
             ELSE /\ evals' = evals + 2
                  /\ IF RLt(b.val, Pr) THEN Return(max_A, "saturated")
                     ELSE /\ pc' = "bisect"
                          /\ UNCHANGED <<result, outcome, exit>>
    /\ UNCHANGED <<args, n, low, high, iter, doublings>>

\* one iteration of the bisection loop
BisectStep ==
    /\ pc = "bisect"
    /\ iter < max_iter
    /\ iter' = iter + 1
    /\ evals' = evals + 1
    /\ LET mid == Midpoint(low, high)
           b == erlang_b(N, mid)
       IN IF b.exc # "none" THEN Raise(b.exc) /\ UNCHANGED <<low, high>>
          ELSE IF WithinTol(b.val, Pr, tol)
               THEN Return(mid, "tol") /\ UNCHANGED <<low, high>>
          ELSE /\ IF RLt(b.val, Pr)
                  THEN low' = mid /\ high' = high
                  ELSE high' = mid /\ low' = low
               /\ UNCHANGED <<pc, result, outcome, exit>>
    /\ UNCHANGED <<args, n, doublings>>

\* max_iter iterations done: return (low + high) / 2.0
BisectExhausted ==
    /\ pc = "bisect"
    /\ iter >= max_iter
    /\ Return(Midpoint(low, high), "exhausted")
    /\ UNCHANGED <<args, n, low, high, iter, doublings, evals>>

(* ---------------------------- specification ---------------------------- *)
ChannelVals == 0..MaxN

CallB ==
    /\ pc = "idle"
    /\ \E N0 \in ChannelVals, A0 \in AnyTraffic : Call_erlang_b(N0, A0)

\* Pr is a value of PrVals and max_channels is given, or Pr is the blocking
\* probability of some (N0, A0) and max_channels is given or left to its
\* default
CallInverse ==
    /\ pc = "idle"
    /\ \E A0 \in AnyTraffic :
          \/ \E Pr0 \in PrVals, mc \in 0..MaxChannels :
                Call_erlang_b_inverse(A0, Pr0, mc, 0)
          \/ \E N0 \in 1..MaxN, mc \in (1..MaxChannels) \cup {DefaultMaxChannels} :
                /\ RLt(Zero, A0)
                /\ Call_erlang_b_inverse(A0, erlang_b(N0, A0).val, mc, N0)

CallAFromPr ==
    /\ pc = "idle"
    /\ \E N0 \in (-1)..MaxN, t \in TolVals, mi \in 0..MaxIter, mA \in 1..MaxMaxA :
          \/ \E Pr0 \in PrVals :
                Call_erlang_a_from_pr(N0, Pr0, t, mi, IntR(mA), Zero)
          \/ \E A0 \in TrafficVals :
                /\ N0 >= 1
                /\ Call_erlang_a_from_pr(N0, erlang_b(N0, A0).val, t, mi, IntR(mA), A0)

Next ==
    \/ CallB
    \/ CallInverse
    \/ ScanStep
    \/ ScanExhausted
    \/ CallAFromPr
    \/ BracketDouble
    \/ BracketExit
    \/ BisectStep
    \/ BisectExhausted

Spec == Init /\ [][Next]_vars

TypeOK ==
    /\ pc \in {"idle", "scan", "bracket", "bisect", "done"}
    /\ outcome \in {"none", "return", "ValueError", "OverflowError",
                    "ZeroDivisionError"}

(* ------------------------------ properties ----------------------------- *)
Done(o) == pc = "done" /\ op = o

\* the value erlang_b returns
B(N0, A0) == erlang_b(N0, A0).val

\* some N in 1..max_channels meets the target
Satisfiable == \E m \in 1..max_channels : RLe(B(m, A), Pr)

\* the normalized recurrence B(0, A) = 1, B(k, A) = A*B(k-1, A) / (k + A*B(k-1, A))
RECURSIVE Recurrence(_, _)
Recurrence(k, A0) ==
    IF k = 0 THEN One
    ELSE LET ab == RMul(A0, Recurrence(k - 1, A0))
         IN RDiv(ab, RAdd(IntR(k), ab))

\* ceil(log2(x)) for x >= 1: the least k with 2^k >= x
RECURSIVE Log2Up(_, _, _)
Log2Up(p, k, x) == IF RLe(x, IntR(p)) THEN k ELSE Log2Up(2 * p, k + 1, x)

CeilLog2(x) == Log2Up(1, 0, x)

\* |x - y| <= t
AbsDiffLe(x, y, t) == RLe(x, RAdd(y, t)) /\ RLe(y, RAdd(x, t))

\* C1: when A > 0, Pr < 1, max_channels >= 1 and some N in 1..max_channels has
\* erlang_b(N, A) <= Pr, erlang_b_inverse returns the smallest such N
C1_ReturnsSmallest ==
    (/\ Done("erlang_b_inverse")
     /\ RLt(Zero, A) /\ RLt(Pr, One) /\ max_channels >= 1
     /\ Satisfiable)
    => /\ outcome = "return"
       /\ result[2] = 1
       /\ result[1] \in 1..max_channels
       /\ RLe(B(result[1], A), Pr)
       /\ \A m \in 1..(result[1] - 1) : ~RLe(B(m, A), Pr)

C1_Witness ==
    /\ Done("erlang_b_inverse")
    /\ RLt(Zero, A) /\ RLt(Pr, One) /\ Satisfiable
    /\ exit = "hit"
    /\ result[1] >= 3

\* C2 as stated: erlang_a_from_pr(N, erlang_b(N, A)) is within 1e-3 relative
\* error of A whenever the probability lies strictly between 0 and 1.  It is
\* stated here for the calls that small arguments do not disturb: A is within
\* max_A, and the bisection was not cut short by max_iter
C2_RoundTripInA ==
    (/\ Done("erlang_a_from_pr")
     /\ srcA # Zero
     /\ RLt(Zero, Pr) /\ RLt(Pr, One)
     /\ RLe(srcA, max_A)
     /\ exit # "exhausted")
    => /\ outcome = "return"
       /\ RLe(RMul(srcA, <<999, 1000>>), result)
       /\ RLe(result, RMul(srcA, <<1001, 1000>>))

\* C2 as amended: the round trip holds in the probability, not in A.  With
\* Pr = erlang_b(N, A) in (0, 1), erlang_a_from_pr returns max_A when
\* erlang_b(N, high) < Pr after the doubling (and then high >= max_A), or a
\* value whose erlang_b is within tol of Pr, or after max_iter halvings the
\* midpoint of a bracket with erlang_b(N, low) < Pr <= erlang_b(N, high)
C2_RoundTripInPr ==
    (/\ Done("erlang_a_from_pr")
     /\ srcA # Zero
     /\ RLt(Zero, Pr) /\ RLt(Pr, One))
    => /\ outcome = "return"
       /\ exit \in {"saturated", "tol", "exhausted"}
       /\ exit = "saturated" =>
             /\ result = max_A
             /\ RLt(B(N, high), Pr)
             /\ RLe(max_A, high)
       /\ exit = "tol" => AbsDiffLe(B(N, result), Pr, tol)
       /\ exit = "exhausted" =>
             /\ iter = max_iter
             /\ result = Midpoint(low, high)
             /\ RLt(B(N, low), Pr)
             /\ RLe(Pr, B(N, high))

C2_Witness ==
    /\ Done("erlang_a_from_pr")
    /\ srcA # Zero
    /\ RLt(Zero, Pr) /\ RLt(Pr, One)
    /\ exit = "tol"
    /\ iter >= 2
    /\ result # srcA

\* C3: erlang_b_inverse(A, erlang_b(N, A)) <= N for N >= 1 and A > 0
C3_InverseAtMostN ==
    (/\ Done("erlang_b_inverse")
     /\ srcN >= 1
     /\ RLt(Zero, A))
    => /\ outcome = "return"
       /\ RLe(result, IntR(srcN))

C3_Witness ==
    /\ Done("erlang_b_inverse")
    /\ srcN >= 2
    /\ max_channels = DefaultMaxChannels
    /\ exit = "hit"
    /\ result = IntR(srcN)

\* C4 as stated: for A > 0 and N >= 0, erlang_b(N + 1, A) <= erlang_b(N, A),
\* the N whose arithmetic overflows included
C4_MonotoneInN ==
    (/\ Done("erlang_b")
     /\ RLt(Zero, A)
     /\ outcome = "return")
    => RLe(B(N + 1, A), result)

C6_OnlyNonPositiveNRaises ==
    pc = "done" =>
       /\ (op = "erlang_a_from_pr" /\ N <= 0) => outcome = "ValueError"
       /\ (op = "erlang_a_from_pr" /\ N >= 1) => outcome = "return"
       /\ op = "erlang_b_inverse" => outcome = "return"
       /\ (op = "erlang_b" /\ RLe(Zero, A)) =>
             /\ outcome = "return"
             /\ (N >= 1 /\ TryRaises(N, A) # "none") => result = One

C6_Witness ==
    /\ Done("erlang_b_inverse")
    /\ RLt(Zero, Pr)
    /\ TryRaises(max_channels, A) = "OverflowError"
    /\ evals = max_channels
    /\ outcome = "return"

\* C7 as stated: for N >= 0 and A >= 0 the value erlang_b returns equals the
\* normalized recurrence, at N = 0 with A = 0 and where the closed form
\* overflows too
C7_EqualsRecurrence ==
    (/\ Done("erlang_b")
     /\ RLe(Zero, A))
    => /\ outcome = "return"
       /\ result = Recurrence(N, A)

\* C7 as amended: erlang_b equals the recurrence for N = 0 with A > 0 and for
\* N >= 1 when no power or factorial overflows; at N = 0 with A = 0 it returns
\* 0.0 where the recurrence is 1, and where the closed form overflows it
\* returns 1.0 where the recurrence is below 1
C7_EqualsRecurrenceUnlessDegenerate ==
    (/\ Done("erlang_b")
     /\ RLe(Zero, A))
    => /\ outcome = "return"
       /\ (N = 0 /\ RLt(Zero, A)) => result = Recurrence(N, A)
       /\ (N = 0 /\ A = Zero) => (result = Zero /\ Recurrence(N, A) = One)
       /\ (N >= 1 /\ TryRaises(N, A) = "none") => result = Recurrence(N, A)
       /\ (N >= 1 /\ TryRaises(N, A) # "none") =>
             (result = One /\ RLt(Recurrence(N, A), One))

C7_Witness ==
    /\ Done("erlang_b")
    /\ N >= 3
    /\ RLt(One, A)
    /\ TryRaises(N, A) = "none"
    /\ result = Recurrence(N, A)
    /\ RLt(result, One)

\* C8: erlang_b_inverse returns 0 for A <= 0 (also when Pr >= 1.0), else 1 for
\* Pr >= 1.0, both without a call of erlang_b, and max_channels when no N in
\* 1..max_channels meets the target
C8_FallbackAndGuards ==
    Done("erlang_b_inverse") =>
       /\ outcome = "return"
       /\ RLe(A, Zero) => (result = Zero /\ evals = 0)
       /\ (RLt(Zero, A) /\ RLe(One, Pr)) => (result = One /\ evals = 0)
       /\ (RLt(Zero, A) /\ RLt(Pr, One) /\ ~Satisfiable) =>
             result = IntR(max_channels)

C8_Witness ==
    /\ Done("erlang_b_inverse")
    /\ RLt(Zero, A) /\ RLt(Zero, Pr) /\ RLt(Pr, One)
    /\ ~Satisfiable
    /\ max_channels >= 2
    /\ exit = "fallback"
    /\ evals = max_channels

\* the caps of C9 on the loops
C9_Caps ==
    /\ op = "erlang_a_from_pr" =>
          /\ doublings <= CeilLog2(max_A)
          /\ iter <= max_iter
    /\ op = "erlang_b_inverse" => evals <= max_channels

\* an upper bound on the steps a running call still takes: the iterations
\* its loops have left, and one step for each loop's exit
Remaining ==
    IF pc = "scan" THEN (max_channels + 1 - n) + 1
    ELSE IF pc = "bracket"
         THEN (CeilLog2(max_A) - doublings) + 1 + (max_iter - iter) + 1
    ELSE IF pc = "bisect" THEN (max_iter - iter) + 1
    ELSE 0

\* a step of a running call lowers Remaining, and not below 0
StepLowersRemaining ==
    pc \in {"scan", "bracket", "bisect"} =>
        (Remaining' < Remaining /\ Remaining' >= 0)

\* C9: every call terminates, erlang_a_from_pr after at most
\* ceil(log2(max_A)) doublings and at most max_iter bisection iterations,
\* erlang_b_inverse after at most max_channels calls of erlang_b: the caps
\* hold in every state, and every step of a running call lowers Remaining,
\* which is never negative
C9_Terminates ==
    /\ []C9_Caps
    /\ [][StepLowersRemaining]_vars

C9_Witness ==
    /\ Done("erlang_a_from_pr")
    /\ doublings = CeilLog2(max_A)
    /\ doublings >= 2
    /\ iter = max_iter
    /\ max_iter >= 2
    /\ exit = "exhausted"

\* C10 as stated: for N >= 1 and 0 < Pr < 1 the bisection starts with
\* high <= max_A, every value returned lies in [0, max_A], and a value at or
\* above max_A comes only from the saturating fallbacks
C10_WithinMaxA ==
    (/\ op = "erlang_a_from_pr"
     /\ N >= 1
     /\ RLt(Zero, Pr) /\ RLt(Pr, One))
    => /\ pc = "bisect" => RLe(high, max_A)
       /\ (pc = "done" /\ outcome = "return") =>
             /\ RLe(Zero, result)
             /\ RLe(result, max_A)
             /\ RLe(max_A, result) => exit = "saturated"

====
